---- MODULE Spec2Model ----
(***************************************************************************)
(* Model of apk-downloader (src/src/main.rs): the two download             *)
(* orchestrators download_apps_from_google_play and                        *)
(* download_apps_from_apkpure, the per-attempt browser call                *)
(* download_single_app, and the rename loop that follows the apkpure       *)
(* batch.                                                                  *)
(*                                                                         *)
(* The futures of one batch run on one thread; a step of the model is one  *)
(* poll of one future up to its next await, or one iteration of the        *)
(* synchronous rename loop.                                                *)
(***************************************************************************)
EXTENDS Integers, Sequences, FiniteSets, TLC

\* ---------------------------------------------------------------- bounds
MaxLen == 2
MaxPar == 2
MaxFiles == 2
MaxText == 5
MaxField == 2

\* ------------------------------------------------------------ vocabulary
Ids == {"a", "b"}

GooglePlay == "GooglePlay"
APKPure == "APKPure"
DownloadSource == {APKPure, GooglePlay}

\* gpapi::error::ErrorKind as seen by the match of lines 90-100
FileExists == "FileExists"
InvalidApp == "InvalidApp"
Other == "Other"
OkRes == "Ok"
ErrRes == "Err"
GpaResults == {OkRes, FileExists, InvalidApp, Other}

\* the trailing " (12.3 MB)" of the span.file text, as one token
SizeTok == " (N MB)"
Texts == {<<"X.apk">>, <<"X.apk", SizeTok>>}

VARIABLES
    is_dir,           \* main: whether OUTPUT is a directory
    fetches,          \* main: identifier-list fetches made (remote or local)
    exit_status,      \* the status given to std::process::exit, -1 if not called
    sessions,         \* the browser sessions that are live
    csv_pc,           \* list provider: "idle", "ready" or "parsed"
    csv_text,         \* list provider: the text given to parse_csv_text
    csv_field,        \* list provider: the 1-indexed column
    parsed,           \* list provider: what parse_csv_text returned
    download_source,  \* main: the backend selected
    app_ids,          \* the identifier list handed to the orchestrator
    parallel,         \* the width given to buffer_unordered
    phase,            \* where the run is
    panicAt,          \* which expect/panic!/unwrap ended the run, or "none"
    logins,           \* the results of the gpa.login calls made
    nxt,              \* position of the next identifier the stream will yield
    st,               \* per position: where its future is
    inv,              \* per position: backend invocations started
    res,              \* per position: the results the invocations returned
    results,          \* apkpure: the collected (filepath, new_filename, app_id)
    dirs,             \* directories that exist under outpath
    fs,               \* per directory: the names of its entries
    fin,              \* rename loop: position in results
    dir_list,         \* rename loop: the last directory listing
    moved,            \* rename loop: the last fs::rename call
    report            \* rename loop: the message printed per artifact

\* the list provider's variables, which the download run leaves alone
csv == <<csv_pc, csv_text, csv_field, parsed>>

\* main's variables before the download phase
mainv == <<is_dir, fetches, exit_status>>

vars == <<csv, mainv, sessions, download_source, app_ids, parallel, phase,
          panicAt, logins, nxt, st, inv, res, results, dirs, fs, fin, dir_list, moved, report>>

\* ------------------------------------------------------------- helpers
Range(s) == {s[k] : k \in 1..Len(s)}

Min(a, b) == IF a < b THEN a ELSE b

Pos == 1..Len(app_ids)

Lists == UNION {[1..n -> Ids] : n \in 0..MaxLen}

\* line 171: Path::new(outpath).join(app_id)
Filepath(app_id) == <<"outpath", app_id>>

AllDirs == {Filepath(id) : id \in Ids}

\* line 185-188: re.replace(&new_filename, "") with r" \([0-9.]+ MB\)$"
StripSize(text) ==
    IF Len(text) > 0 /\ text[Len(text)] = SizeTok
    THEN SubSeq(text, 1, Len(text) - 1)
    ELSE text

\* the name the browser saves a download under: the first one not taken
DlName(n) == <<"download", ToString(n)>>

FreshNames(d) == {n \in 1..MaxFiles : DlName(n) \notin fs[d] /\
                    \A m \in 1..(n - 1) : DlName(m) \in fs[d]}

\* the orders in which read_dir may return the entries of a set
Listings(S) == {l \in [1..Cardinality(S) -> S] :
                  \A i, j \in 1..Cardinality(S) : l[i] = l[j] => i = j}

Terminal == {"ok", "failed"}

\* the futures held by buffer_unordered's in-progress queue
InProgress == {i \in Pos : st[i] \notin ({"pending"} \cup Terminal)}

\* the stages of download_single_app, named by the call being awaited
SingleAppStages == {"new", "set_timeout", "get", "find_element", "text"}

NoMove == [from |-> <<>>, to |-> <<>>]

\* ---------------------------------------------------------------- Init
\* what the download run starts from, the list provider's variables aside
InitRun ==
    /\ is_dir \in BOOLEAN
    /\ fetches = 0
    /\ exit_status = -1
    /\ sessions = {}
    /\ download_source \in DownloadSource
    /\ app_ids = <<>>
    /\ parallel \in 1..MaxPar
    /\ phase = "main"
    /\ panicAt = "none"
    /\ logins = <<>>
    /\ nxt = 1
    /\ st = <<>>
    /\ inv = <<>>
    /\ res = <<>>
    /\ results = <<>>
    /\ dirs \in {{}, AllDirs}
    /\ fs = [d \in AllDirs |-> {}]
    /\ fin = 1
    /\ dir_list = <<>>
    /\ moved = NoMove
    /\ report = <<>>

Init ==
    /\ csv_pc = "idle"
    /\ csv_text = <<>>
    /\ csv_field = 1
    /\ parsed = <<>>
    /\ InitRun

\* --------------------------------------------------------------------- main
\* mutant: the list is fetched whatever OUTPUT is
AfterDirCheck_Skipped(ok) == "list"

\* lines 268-271: exit(1) unless OUTPUT is a directory
AfterDirCheck(ok) == IF ok THEN "list" ELSE "exit"

\* what main's steps before the download phase leave alone
RunRest == <<csv, is_dir, sessions, download_source, parallel, logins, nxt,
             results, dirs, fs, fin, dir_list, moved, report>>

CheckOutput ==
    /\ phase = "main"
    /\ phase' = AfterDirCheck(is_dir)
    /\ exit_status' = IF AfterDirCheck(is_dir) = "exit" THEN 1 ELSE exit_status
    /\ UNCHANGED <<RunRest, fetches, panicAt, app_ids, st, inv, res>>

\* lines 272-295, 297-306: `list` is handed to the orchestrator
HandList(list) ==
    /\ app_ids' = list
    /\ st' = [i \in 1..Len(list) |-> "pending"]
    /\ inv' = [i \in 1..Len(list) |-> 0]
    /\ res' = [i \in 1..Len(list) |-> <<>>]
    /\ phase' = "start"

\* line 273: vec![app_name.to_string()], no list is fetched
AppName ==
    /\ phase = "list"
    /\ \E id \in Ids : HandList(<<id>>)
    /\ UNCHANGED <<RunRest, fetches, exit_status, panicAt>>

\* lines 277, 53-61: fetch_android_rank_list().await.unwrap()
FetchAndroidRank ==
    /\ phase = "list"
    /\ fetches' = fetches + 1
    /\ \/ /\ \E list \in Lists : HandList(list)
          /\ UNCHANGED panicAt
       \/ /\ phase' = "panic"
          /\ panicAt' = "fetch"
          /\ UNCHANGED <<app_ids, st, inv, res>>
    /\ UNCHANGED <<RunRest, exit_status>>

\* lines 278-291, 63-65: the field is validated, then fetch_csv_list reads
\* the file; a field below 1 and a read error both exit(1)
FetchCsv ==
    /\ phase = "list"
    /\ \E f \in 0..1 :
         IF f < 1
         THEN /\ phase' = "exit"
              /\ exit_status' = 1
              /\ UNCHANGED <<fetches, app_ids, st, inv, res>>
         ELSE /\ fetches' = fetches + 1
              /\ \/ /\ \E list \in Lists : HandList(list)
                    /\ UNCHANGED exit_status
                 \/ /\ phase' = "exit"
                    /\ exit_status' = 1
                    /\ UNCHANGED <<app_ids, st, inv, res>>
    /\ UNCHANGED <<RunRest, panicAt>>


\* ------------------------------------------- download_apps_from_google_play
\* line 82: gpa.login(..).await.expect(..): the batch is reached only on Ok
\* mutant: the result of the login is not looked at
AfterLogin_Unchecked(r) == "stream"

AfterLogin(r) == IF r = OkRes THEN "stream" ELSE "panic"

Login ==
    /\ phase = "start"
    /\ download_source = GooglePlay
    /\ \E r \in {OkRes, ErrRes} :
         /\ logins' = Append(logins, r)
         /\ phase' = AfterLogin(r)
         /\ panicAt' = IF AfterLogin(r) = "panic" THEN "login" ELSE panicAt
    /\ UNCHANGED <<csv, mainv, sessions, download_source, app_ids,
                   parallel, nxt, st, inv, res,
                   results, dirs, fs, fin, dir_list, moved, report>>

\* lines 119 and 147: buffer_unordered(parallel) pulls the next future from
\* the stream while its queue holds fewer than parallel futures
\* mutant: the queue is filled to one more than parallel
CanAdmit_OneMore == nxt <= Len(app_ids) /\ Cardinality(InProgress) <= parallel

CanAdmit == nxt <= Len(app_ids) /\ Cardinality(InProgress) < parallel

Admit ==
    /\ phase = "stream"
    /\ CanAdmit
    /\ st' = [st EXCEPT ![nxt] = "queued"]
    /\ nxt' = nxt + 1
    /\ UNCHANGED <<csv, mainv, sessions, download_source, app_ids,
                   parallel, phase, panicAt, logins,
                   inv, res, results, dirs, fs, fin, dir_list, moved, report>>

\* mutant: the futures are polled while the stream still has identifiers and
\* the queue has room
Polling_Eager == phase = "stream"

\* the queued futures are polled once the queue is full or the stream is empty
Polling == phase = "stream" /\ ~CanAdmit

\* mutant: the first two results lead to another call whatever they are
GpDecision_AlwaysRetry(k, r) == IF k < 3 THEN "retry" ELSE "ok"

\* lines 90-116: what the match on the k-th gpa.download result r leads to
GpDecision(k, r) ==
    CASE k = 1 /\ r = OkRes -> "ok"
      [] k = 1 /\ r = FileExists -> "ok"
      [] k = 1 /\ r = InvalidApp -> "failed"
      [] k = 1 /\ r = Other -> "retry"
      [] k = 2 /\ r = OkRes -> "ok"
      [] k = 2 /\ r # OkRes -> "retry"
      [] k = 3 /\ r = OkRes -> "ok"
      [] k = 3 /\ r # OkRes -> "failed"

\* lines 88-90: the first poll of an item's future starts gpa.download
GpFirstPoll(i) ==
    /\ Polling
    /\ download_source = GooglePlay
    /\ st[i] = "queued"
    /\ st' = [st EXCEPT ![i] = "download"]
    /\ inv' = [inv EXCEPT ![i] = 1]
    /\ UNCHANGED <<csv, mainv, sessions, download_source, app_ids,
                   parallel, phase, panicAt, logins,
                   nxt, res, results, dirs, fs, fin, dir_list, moved, report>>

\* lines 90-116: a gpa.download returns; the match ends the item or calls again
GpDownloadReturns(i) ==
    /\ Polling
    /\ download_source = GooglePlay
    /\ st[i] = "download"
    /\ \E r \in GpaResults :
         LET d == GpDecision(inv[i], r) IN
         /\ res' = [res EXCEPT ![i] = Append(@, r)]
         /\ st' = [st EXCEPT ![i] = IF d = "retry" THEN "download" ELSE d]
         /\ inv' = [inv EXCEPT ![i] = IF d = "retry" THEN @ + 1 ELSE @]
    /\ UNCHANGED <<csv, mainv, sessions, download_source, app_ids,
                   parallel, phase, panicAt, logins,
                   nxt, results, dirs, fs, fin, dir_list, moved, report>>

\* ----------------------------------------------- download_apps_from_apkpure
\* line 123-149: the stream is built and awaited; nothing precedes the batch
StartApkpure ==
    /\ phase = "start"
    /\ download_source = APKPure
    /\ phase' = "stream"
    /\ UNCHANGED <<csv, mainv, sessions, download_source, app_ids,
                   parallel, panicAt, logins, nxt,
                   st, inv, res, results, dirs, fs, fin, dir_list, moved,
                   report>>

\* mutant: the third failure is retried as well
ApkDecision_NoCeiling(k, r) == IF r = OkRes THEN "ok" ELSE "retry"

\* mutant: the second failure already ends the item
ApkDecision_TwoAttempts(k, r) ==
    IF r = OkRes THEN "ok" ELSE IF k < 2 THEN "retry" ELSE "failed"

\* lines 126-144: what the match on the k-th download_single_app result leads to
ApkDecision(k, r) ==
    CASE k = 1 /\ r = OkRes -> "ok"
      [] k = 1 /\ r # OkRes -> "retry"
      [] k = 2 /\ r = OkRes -> "ok"
      [] k = 2 /\ r # OkRes -> "retry"
      [] k = 3 /\ r = OkRes -> "ok"
      [] k = 3 /\ r # OkRes -> "failed"

\* lines 177-178: the session WebDriver::new opens for the invocation
NewSession(i) == [item |-> i, attempt |-> inv[i]]

\* mutant: the session outlives the call
DropDriver_Leak(i) == sessions

\* lines 177-190: `driver` is a local of download_single_app; it is dropped
\* when the call returns, through `?` or with Ok, which ends its session
DropDriver(i) == {s \in sessions : s.item # i}

\* lines 128-143: download_single_app returned Err through a `?`
AttemptFailed(i) ==
    LET d == ApkDecision(inv[i], ErrRes) IN
    /\ sessions' = DropDriver(i)
    /\ res' = [res EXCEPT ![i] = Append(@, ErrRes)]
    /\ st' = [st EXCEPT ![i] = IF d = "retry" THEN "new" ELSE d]
    /\ inv' = [inv EXCEPT ![i] = IF d = "retry" THEN @ + 1 ELSE @]

\* lines 126, 168-177: the first poll calls download_single_app, which builds
\* the capabilities and awaits WebDriver::new
ApkFirstPoll(i) ==
    /\ Polling
    /\ download_source = APKPure
    /\ st[i] = "queued"
    /\ st' = [st EXCEPT ![i] = "new"]
    /\ inv' = [inv EXCEPT ![i] = 1]
    /\ UNCHANGED <<csv, mainv, sessions, download_source, app_ids,
                   parallel, phase, panicAt, logins,
                   nxt, res, results, dirs, fs, fin, dir_list, moved, report>>

\* lines 177-180: Err of WebDriver::new is a panic!, inside the item's future
AfterNew(r) == IF r = OkRes THEN "set_timeout" ELSE "panic"

NewReturns(i) ==
    /\ Polling
    /\ download_source = APKPure
    /\ st[i] = "new"
    /\ \E r \in {OkRes, ErrRes} :
         IF AfterNew(r) = "panic"
         THEN /\ phase' = "panic"
              /\ panicAt' = "driver"
              /\ UNCHANGED <<st, sessions>>
         ELSE /\ st' = [st EXCEPT ![i] = AfterNew(r)]
              /\ sessions' = sessions \cup {NewSession(i)}
              /\ UNCHANGED <<phase, panicAt>>
    /\ UNCHANGED <<csv, mainv, download_source, app_ids,
                   parallel, logins, nxt, inv, res,
                   results, dirs, fs, fin, dir_list, moved, report>>

\* line 182: driver.set_implicit_wait_timeout(delay).await?
SetTimeoutReturns(i) ==
    /\ Polling
    /\ download_source = APKPure
    /\ st[i] = "set_timeout"
    /\ \E r \in {OkRes, ErrRes} :
         IF r = OkRes
         THEN st' = [st EXCEPT ![i] = "get"] /\ UNCHANGED <<inv, res, sessions>>
         ELSE AttemptFailed(i)
    /\ UNCHANGED <<csv, mainv, download_source, app_ids,
                   parallel, phase, panicAt, logins,
                   nxt, results, dirs, fs, fin, dir_list, moved, report>>

\* the browser saves the download it was navigated to, creating the
\* download.default_directory of its session (lines 171-175) if needed
BrowserSaves(d, n) ==
    /\ fs' = [fs EXCEPT ![d] = @ \cup {DlName(n)}]
    /\ dirs' = dirs \cup {d}

\* line 183: driver.get(app_url).await?; by the time it returns the browser
\* may or may not have saved the file
GetReturns(i) ==
    /\ Polling
    /\ download_source = APKPure
    /\ st[i] = "get"
    /\ \E r \in {OkRes, ErrRes} :
         IF r = OkRes
         THEN st' = [st EXCEPT ![i] = "find_element"] /\ UNCHANGED <<inv, res, sessions>>
         ELSE AttemptFailed(i)
    /\ \/ UNCHANGED <<dirs, fs>>
       \/ \E n \in FreshNames(Filepath(app_ids[i])) :
            BrowserSaves(Filepath(app_ids[i]), n)
    /\ UNCHANGED <<csv, mainv, download_source, app_ids,
                   parallel, phase, panicAt, logins,
                   nxt, results, fin, dir_list, moved, report>>

\* line 184: driver.find_element(By::Css("span.file")).await?
FindElementReturns(i) ==
    /\ Polling
    /\ download_source = APKPure
    /\ st[i] = "find_element"
    /\ \E r \in {OkRes, ErrRes} :
         IF r = OkRes
         THEN st' = [st EXCEPT ![i] = "text"] /\ UNCHANGED <<inv, res, sessions>>
         ELSE AttemptFailed(i)
    /\ UNCHANGED <<csv, mainv, download_source, app_ids,
                   parallel, phase, panicAt, logins,
                   nxt, results, dirs, fs, fin, dir_list, moved, report>>

\* line 189: the tuple download_single_app returns
ResTuple(app_id, text) ==
    [filepath |-> Filepath(app_id), new_filename |-> StripSize(text),
     app_id |-> app_id]

\* lines 187-189, 127: elem_result.text().await?; on Ok the tuple goes through
\* filter_map into the collected Vec
TextReturns(i) ==
    /\ Polling
    /\ download_source = APKPure
    /\ st[i] = "text"
    /\ \/ /\ AttemptFailed(i)
          /\ UNCHANGED results
       \/ \E text \in Texts :
            /\ res' = [res EXCEPT ![i] = Append(@, OkRes)]
            /\ st' = [st EXCEPT ![i] = ApkDecision(inv[i], OkRes)]
            /\ inv' = inv
            /\ sessions' = DropDriver(i)
            /\ results' = Append(results, ResTuple(app_ids[i], text))
    /\ UNCHANGED <<csv, mainv, download_source, app_ids,
                   parallel, phase, panicAt, logins,
                   nxt, dirs, fs, fin, dir_list, moved, report>>

\* mutant: collect ends as soon as the stream is empty
BatchOver_StreamEmpty == nxt > Len(app_ids)

\* lines 119 and 147-149: collect ends when the stream is empty and no future
\* is left in the queue
BatchOver == nxt > Len(app_ids) /\ InProgress = {}

StreamDone ==
    /\ phase = "stream"
    /\ BatchOver
    /\ phase' = IF download_source = APKPure THEN "finalize" ELSE "done"
    /\ UNCHANGED <<csv, mainv, sessions, download_source, app_ids,
                   parallel, panicAt, logins, nxt,
                   st, inv, res, results, dirs, fs, fin, dir_list, moved,
                   report>>

\* ------------------------------------------------ the rename loop, 150-163
\* mutant: the last entry of the listing is taken
OldFilename_Last(l) == l[Len(l)]

\* line 155: dir_list[0]
OldFilename(l) == l[1]

\* line 156: the two paths given to fs::rename
RenameFrom(move_file, l) == <<move_file.filepath, OldFilename(l)>>

RenameTo(move_file) == <<move_file.filepath, move_file.new_filename>>

\* fs::rename inside one directory: the entry takes the new name, replacing
\* an entry that has it
Renamed(files, old, new) == (files \ {old}) \cup {new}

\* lines 153-159: a listing with entries is renamed, an empty one reported
HasEntries(l) == Len(l) > 0

Saving == "Saving"
CouldNotSave == "Could not save"

\* lines 150-163: one iteration of `for move_file in results`
MoveFile ==
    /\ phase = "finalize"
    /\ fin <= Len(results)
    /\ LET move_file == results[fin] IN
       IF move_file.filepath \in dirs
       THEN \E l \in Listings(fs[move_file.filepath]) :
              /\ dir_list' = l
              /\ IF HasEntries(l)
                 THEN /\ report' = Append(report, Saving)
                      /\ moved' = [from |-> RenameFrom(move_file, l),
                                   to |-> RenameTo(move_file)]
                      /\ \E r \in {OkRes, ErrRes} :
                           IF r = OkRes
                           THEN /\ fs' = [fs EXCEPT ![move_file.filepath] =
                                            Renamed(@, RenameFrom(move_file, l)[2],
                                                    RenameTo(move_file)[2])]
                                /\ fin' = fin + 1
                                /\ UNCHANGED <<phase, panicAt>>
                           ELSE /\ phase' = "panic"
                                /\ panicAt' = "rename"
                                /\ UNCHANGED <<fs, fin>>
                 ELSE /\ report' = Append(report, CouldNotSave)
                      /\ fin' = fin + 1
                      /\ UNCHANGED <<phase, panicAt, fs, moved>>
       ELSE /\ report' = Append(report, CouldNotSave)
            /\ fin' = fin + 1
            /\ dir_list' = <<>>
            /\ UNCHANGED <<phase, panicAt, fs, moved>>
    /\ UNCHANGED <<csv, mainv, sessions, download_source, app_ids,
                   parallel, logins, nxt, st, inv,
                   res, results, dirs>>

\* line 164: the loop is over and the function returns Ok(())
MoveFilesDone ==
    /\ phase = "finalize"
    /\ fin > Len(results)
    /\ phase' = "done"
    /\ UNCHANGED <<csv, mainv, sessions, download_source, app_ids,
                   parallel, panicAt, logins, nxt,
                   st, inv, res, results, dirs, fs, fin, dir_list, moved,
                   report>>

\* ------------------------------------------------------------ the program
Next ==
    \/ CheckOutput
    \/ AppName
    \/ FetchAndroidRank
    \/ FetchCsv
    \/ Login
    \/ StartApkpure
    \/ Admit
    \/ \E i \in Pos : GpFirstPoll(i)
    \/ \E i \in Pos : GpDownloadReturns(i)
    \/ \E i \in Pos : ApkFirstPoll(i)
    \/ \E i \in Pos : NewReturns(i)
    \/ \E i \in Pos : SetTimeoutReturns(i)
    \/ \E i \in Pos : GetReturns(i)
    \/ \E i \in Pos : FindElementReturns(i)
    \/ \E i \in Pos : TextReturns(i)
    \/ StreamDone
    \/ MoveFile
    \/ MoveFilesDone

Spec == Init /\ [][Next]_vars

\* ------------------------------------------------- the list provider, 53-78
\* a text is a sequence of characters
Chars == {"a", "b", ",", " ", "\n"}

\* what str::trim takes off
White == {" ", "\t", "\r", "\n"}

CsvTexts == UNION {[1..n -> Chars] : n \in 0..MaxText}

\* str::split(c): the pieces between the occurrences of c, at least one piece
RECURSIVE Split(_, _)
Split(s, c) ==
    IF \E i \in 1..Len(s) : s[i] = c
    THEN LET i == CHOOSE i \in 1..Len(s) :
                    s[i] = c /\ \A j \in 1..(i - 1) : s[j] # c
         IN  <<SubSeq(s, 1, i - 1)>> \o Split(SubSeq(s, i + 1, Len(s)), c)
    ELSE <<s>>

RECURSIVE TrimStart(_)
TrimStart(s) ==
    IF Len(s) > 0 /\ s[1] \in White THEN TrimStart(Tail(s)) ELSE s

RECURSIVE TrimEnd(_)
TrimEnd(s) ==
    IF Len(s) > 0 /\ s[Len(s)] \in White
    THEN TrimEnd(SubSeq(s, 1, Len(s) - 1))
    ELSE s

\* line 70: l.trim()
Trim(s) == TrimEnd(TrimStart(s))

\* mutant: a row of one empty field is kept
KeepRow_NoBlankGuard(entry_vec, f) == Len(entry_vec) > f

\* line 72: the condition under which a row yields its field
KeepRow(entry_vec, f) ==
    Len(entry_vec) > f /\ ~(Len(entry_vec) = 1 /\ Len(entry_vec[1]) = 0)

\* lines 70-76: the closure of filter_map, Some as <<v>> and None as <<>>
RowField(l, f) ==
    LET entry == Trim(l)
        entry_vec == Split(entry, ",")
    IN  IF KeepRow(entry_vec, f) THEN <<entry_vec[f + 1]>> ELSE <<>>

RECURSIVE FilterMapRows(_, _)
FilterMapRows(rows, f) ==
    IF rows = <<>> THEN <<>>
    ELSE RowField(Head(rows), f) \o FilterMapRows(Tail(rows), f)

\* lines 67-78
parse_csv_text(t, fld) == FilterMapRows(Split(t, "\n"), fld - 1)

\* the download run's variables while only the list provider is looked at
RunIdle ==
    /\ is_dir = TRUE
    /\ fetches = 0
    /\ exit_status = -1
    /\ sessions = {}
    /\ download_source = APKPure
    /\ app_ids = <<>>
    /\ parallel = 1
    /\ phase = "list"
    /\ panicAt = "none"
    /\ logins = <<>>
    /\ nxt = 1
    /\ st = <<>>
    /\ inv = <<>>
    /\ res = <<>>
    /\ results = <<>>
    /\ dirs = {}
    /\ fs = [d \in AllDirs |-> {}]
    /\ fin = 1
    /\ dir_list = <<>>
    /\ moved = NoMove
    /\ report = <<>>

run == <<mainv, sessions, download_source, app_ids, parallel, phase, panicAt,
         logins, nxt, st, inv, res, results, dirs, fs, fin, dir_list, moved,
         report>>

InitCsv ==
    /\ csv_pc = "ready"
    /\ csv_text \in CsvTexts
    /\ csv_field \in 1..MaxField
    /\ parsed = <<>>
    /\ RunIdle

\* lines 53-61: fetch_android_rank_list parses the response with field 1
FetchAndroidRankList ==
    /\ csv_pc = "ready"
    /\ csv_field' = 1
    /\ parsed' = parse_csv_text(csv_text, 1)
    /\ csv_pc' = "parsed"
    /\ UNCHANGED <<csv_text, run>>

\* lines 63-65: fetch_csv_list parses the file with the field main checked
\* to be 1 or greater (lines 280-284)
FetchCsvList ==
    /\ csv_pc = "ready"
    /\ csv_field >= 1
    /\ parsed' = parse_csv_text(csv_text, csv_field)
    /\ csv_pc' = "parsed"
    /\ UNCHANGED <<csv_text, csv_field, run>>

NextCsv ==
    \/ FetchAndroidRankList
    \/ FetchCsvList

SpecCsv == InitCsv /\ [][NextCsv]_vars

\* ------------------------------------------------------------ the claims
\* positions whose future has called the backend and has no outcome yet
Started == {i \in Pos : st[i] \notin ({"pending", "queued"} \cup Terminal)}

\* C1: in both variants, in every reachable state, the number of items that
\* are in flight (admitted to the buffer_unordered queue, started or not, and
\* without a terminal outcome) is at most min(parallel, length of the list).
C1_InFlightBounded ==
    /\ Cardinality(InProgress) <= Min(parallel, Len(app_ids))
    /\ Started \subseteq InProgress

\* C1 witness: the width is reached, with fewer slots than identifiers, after
\* an earlier item has ended and its slot was given to the next identifier.
C1_Witness ==
    /\ parallel < Len(app_ids)
    /\ Cardinality(Started) = parallel
    /\ \E i \in Pos : st[i] \in Terminal

\* C2 (as claimed): once the download phase has started, a run that is over,
\* or has left the batch, has given every position of the list a terminal
\* outcome. Violated: the panic! of line 179 ends the run inside the batch.
C2_EveryPositionGetsOutcome ==
    (phase \in {"finalize", "done", "panic"} /\ panicAt \notin {"login", "fetch"})
        => \A i \in Pos : st[i] \in Terminal

\* C3: in both variants no item ever has more than 3 backend invocations,
\* every item whose attempt chain has started or ended has at least 1, and
\* when the batch is over every item of the list has between 1 and 3.
C3_InvocationsBetween1And3 ==
    \A i \in Pos :
        /\ inv[i] <= 3
        /\ st[i] \notin {"pending", "queued"} => inv[i] >= 1
        /\ phase \in {"finalize", "done"} => inv[i] \in 1..3
        /\ Len(res[i]) = IF st[i] \in Terminal THEN inv[i]
                         ELSE IF inv[i] = 0 THEN 0 ELSE inv[i] - 1

\* C3 witness: a finished run in which one item used all 3 invocations and
\* another item needed 1.
C3_Witness ==
    /\ phase = "done"
    /\ \E i, j \in Pos : inv[i] = 3 /\ st[i] = "failed" /\ inv[j] = 1

\* C4 (as claimed): in the Google Play variant an invocation that returned
\* InvalidApp or FileExists is the last invocation of its item. Violated: the
\* second result is matched by `Err(_)` alone (line 104) and retried.
C4_ClassifiedAfterEachAttempt ==
    download_source = GooglePlay =>
        \A i \in Pos : \A k \in 1..Len(res[i]) :
            res[i][k] \in {InvalidApp, FileExists} => inv[i] = k

\* C5 (as claimed): in the Google Play variant an item one of whose
\* invocations returned FileExists ends Ok. Violated: FileExists on the second
\* or third invocation falls under `Err(_)` / `Err(err)` (lines 104, 108).
C5_FileExistsEndsOk ==
    download_source = GooglePlay =>
        \A i \in Pos :
            (st[i] \in Terminal /\ FileExists \in Range(res[i])) => st[i] = "ok"

\* C6 (as claimed): in the apkpure variant no two positions that are inside
\* download_single_app at the same time have the same download directory.
\* Violated: the directory is outpath/app_id (line 171), equal for duplicates.
C6_NoSharedDirectory ==
    download_source = APKPure =>
        \A i, j \in Pos :
            (i # j /\ st[i] \in SingleAppStages /\ st[j] \in SingleAppStages)
                => Filepath(app_ids[i]) # Filepath(app_ids[j])

\* C7 (as claimed): the rename loop never ends the run, and a finished run has
\* handled every collected tuple once. Violated: fs::rename(..).unwrap()
\* (line 156) panics on Err, leaving the later tuples unhandled.
C7_FinalizerNeverAborts ==
    /\ panicAt # "rename"
    /\ (phase = "done" /\ download_source = APKPure)
           => (Len(report) = Len(results) /\ fin = Len(results) + 1)

\* C8: every iteration of the rename loop whose directory is missing or empty
\* prints "Could not save", calls no rename, changes no file, does not panic
\* and moves on to the next tuple; every iteration whose directory has entries
\* calls fs::rename from the first entry of the listing to new_filename (the
\* element text without its size annotation), both inside the tuple's
\* directory, and when the rename succeeds exactly that entry takes that name.
C8_FinalizerStep ==
    [][(phase = "finalize" /\ fin <= Len(results)) =>
         LET mf == results[fin]
             d == mf.filepath
             listed == IF d \in dirs THEN fs[d] ELSE {}
         IN  IF listed = {}
             THEN /\ fs' = fs
                  /\ moved' = moved
                  /\ phase' = "finalize"
                  /\ panicAt' = "none"
                  /\ fin' = fin + 1
                  /\ report' = Append(report, CouldNotSave)
             ELSE /\ Range(dir_list') = listed
                  /\ moved'.from = <<d, dir_list'[1]>>
                  /\ moved'.to = <<d, mf.new_filename>>
                  /\ SizeTok \notin Range(mf.new_filename)
                  /\ report' = Append(report, Saving)
                  /\ phase' = "finalize" =>
                       /\ fin' = fin + 1
                       /\ fs' = [fs EXCEPT ![d] =
                                   (@ \ {dir_list'[1]}) \cup {mf.new_filename}]
      ]_vars

\* C8 witness: a finished run whose loop reported one tuple as not saved, in
\* a directory that exists and is empty, and renamed the file of another.
C8_Witness ==
    /\ phase = "done"
    /\ CouldNotSave \in Range(report)
    /\ Saving \in Range(report)
    /\ \E k \in 1..Len(results) :
         results[k].filepath \in dirs /\ fs[results[k].filepath] = {}
    /\ moved # NoMove

\* C9 (as claimed): when the run is halted because the driver cannot be
\* reached, no identifier has been admitted and no item is in flight.
\* Violated: WebDriver::new is called inside an item's future (line 177).
C9_HaltBeforeScheduling ==
    panicAt = "driver" => (nxt = 1 /\ \A i \in Pos : st[i] = "pending")

\* C10: in the Google Play variant gpa.login is called once, before the batch;
\* a download invocation is made only after it returned Ok, and when it
\* returned Err the run has halted with no download invocation made.
C10_LoginOnceBeforeDownloads ==
    download_source = GooglePlay =>
        /\ Len(logins) <= 1
        /\ phase \in {"stream", "done"} => Len(logins) = 1
        /\ (\E i \in Pos : inv[i] > 0 \/ st[i] # "pending") => logins = <<OkRes>>
        /\ ErrRes \in Range(logins) =>
             /\ phase = "panic"
             /\ \A i \in Pos : inv[i] = 0 /\ st[i] = "pending"

\* C10 witness: a finished Google Play run in which downloads were invoked.
C10_Witness ==
    /\ download_source = GooglePlay
    /\ phase = "done"
    /\ logins = <<OkRes>>
    /\ \E i \in Pos : inv[i] > 0

\* C11: when OUTPUT is not a directory the run goes from the check straight to
\* std::process::exit with status 1: no identifier list is fetched or built,
\* no login is made, no browser session is opened and no backend is invoked.
C11_OutputCheckedFirst ==
    ~is_dir =>
        /\ phase \in {"main", "exit"}
        /\ phase = "exit" => (exit_status = 1 /\ exit_status # 0)
        /\ phase = "main" => exit_status = -1
        /\ fetches = 0
        /\ app_ids = <<>>
        /\ logins = <<>>
        /\ sessions = {}
        /\ inv = <<>>
        /\ nxt = 1

\* C11 witness: a run with a missing output directory that has exited.
C11_Witness ==
    /\ ~is_dir
    /\ phase = "exit"
    /\ exit_status = 1

\* the stages of download_single_app in which `driver` holds a session
DriverStages == SingleAppStages \ {"new"}

KthOf(S, k) == CHOOSE x \in S : Cardinality({y \in S : y < x}) = k - 1

\* the positions of separator c in s,
SepsOf(s, c) == {i \in 1..Len(s) : s[i] = c}

\* the number of pieces that c separates s into,
PiecesOf(s, c) == Cardinality(SepsOf(s, c)) + 1

\* and the k-th of these pieces.
PieceOf(s, c, k) ==
    LET lo == IF k = 1 THEN 0 ELSE KthOf(SepsOf(s, c), k - 1)
        hi == IF k = PiecesOf(s, c) THEN Len(s) + 1 ELSE KthOf(SepsOf(s, c), k)
    IN  [j \in 1..(hi - lo - 1) |-> s[lo + j]]

\* a line without its leading and trailing whitespace
Stripped(l) ==
    LET ink == {i \in 1..Len(l) : l[i] \notin White}
    IN  IF ink = {} THEN <<>>
        ELSE LET lo == CHOOSE i \in ink : \A j \in ink : i <= j
                 hi == CHOOSE i \in ink : \A j \in ink : j <= i
             IN  [j \in 1..(hi - lo + 1) |-> l[lo + j - 1]]

\* the k-th line of the text given to the parser, stripped
LineOf(k) == Stripped(PieceOf(csv_text, "\n", k))

\* the lines that have at least csv_field fields and are not empty
Contributing ==
    {k \in 1..PiecesOf(csv_text, "\n") :
        PiecesOf(LineOf(k), ",") >= csv_field /\ LineOf(k) # <<>>}

\* C13: for every text and every column c >= 1 the result of parse_csv_text
\* has one element per line that (stripped of surrounding whitespace) has at
\* least c comma-separated fields and is not empty, in line order, and that
\* element is the c-th field of the stripped line; the other lines (fewer
\* fields, empty, whitespace only) contribute nothing.
C13_ColumnExtracted ==
    csv_pc = "parsed" =>
        /\ Len(parsed) = Cardinality(Contributing)
        /\ \A j \in 1..Len(parsed) :
             parsed[j] = PieceOf(LineOf(KthOf(Contributing, j)), ",", csv_field)

\* C13 witness: column 2 of a text of several lines, one of which has a
\* second field and one of which has not.
C13_Witness ==
    /\ csv_pc = "parsed"
    /\ csv_field = 2
    /\ Len(parsed) = 1
    /\ parsed[1] # <<>>
    /\ PiecesOf(csv_text, "\n") >= 2
    /\ \E k \in 1..PiecesOf(csv_text, "\n") : LineOf(k) # <<>> /\ k \notin Contributing

\* C14 (as claimed): no element returned by parse_csv_text starts or ends
\* with a whitespace or line-ending character. Violated: the line is trimmed
\* (line 70), its fields are not ("a, b" with column 2 gives " b").
C14_FieldsTrimmed ==
    csv_pc = "parsed" =>
        \A j \in 1..Len(parsed) :
            parsed[j] # <<>> =>
                (parsed[j][1] \notin White /\ parsed[j][Len(parsed[j])] \notin White)

\* C15 (as claimed): no element returned by parse_csv_text is the empty
\* string. Violated: a row with several fields yields its c-th field even
\* when that field is empty ("a,,b" with column 2); line 72 only drops the
\* row that is one empty field.
C15_IdentifiersNonEmpty ==
    csv_pc = "parsed" => \A j \in 1..Len(parsed) : parsed[j] # <<>>

\* C16: in both variants, from every state of the batch in which an
\* identifier is still pending and fewer than parallel items are in flight,
\* the only step taken is the admission of the next pending identifier: no
\* future is polled, and the batch is not left, before the slot is filled.
C16_WorkConserving ==
    [][(phase = "stream" /\ nxt <= Len(app_ids)
          /\ Cardinality({i \in Pos : st[i] \notin {"pending", "ok", "failed"}})
               < parallel)
        => /\ nxt' = nxt + 1
           /\ st'[nxt] = "queued"
           /\ \A i \in Pos \ {nxt} : st'[i] = st[i]
           /\ inv' = inv
           /\ res' = res
           /\ phase' = "stream"
      ]_vars

\* C16 witness: an item has ended while an identifier was pending, and that
\* identifier now holds the freed slot while the batch goes on.
C16_Witness ==
    /\ phase = "stream"
    /\ \E i, j \in Pos :
         /\ st[i] \in Terminal
         /\ j > parallel
         /\ st[j] \notin ({"pending"} \cup Terminal)

\* C17: in both variants an item has at most one backend invocation that has
\* not returned, and each invocation after the first was started only after
\* the one before it had returned an error.
C17_AttemptsSequential ==
    \A i \in Pos :
        /\ inv[i] - Len(res[i]) \in {0, 1}
        /\ inv[i] - Len(res[i]) = 1
             <=> st[i] \in (SingleAppStages \cup {"download"})
        /\ \A k \in 1..(inv[i] - 1) : k <= Len(res[i]) /\ res[i][k] # OkRes

\* C17 witness: the third invocation of an item is in progress, after two
\* that returned errors.
C17_Witness ==
    \E i \in Pos : inv[i] = 3 /\ Len(res[i]) = 2 /\ st[i] \notin Terminal

C19_FinalizeAfterBatch ==
    /\ (phase = "finalize" \/ fin > 1 \/ report # <<>> \/ dir_list # <<>>
          \/ moved # NoMove)
         => /\ download_source = APKPure
            /\ nxt > Len(app_ids)
            /\ \A i \in Pos : st[i] \in Terminal
            /\ sessions = {}
    /\ fin <= Len(results) + 1
    /\ Len(report) \in {fin - 1, fin}
    /\ Len(report) = fin => (phase = "panic" /\ panicAt = "rename")

\* C19 witness: the loop is between two tuples, one handled and one to go.
C19_Witness ==
    /\ phase = "finalize"
    /\ fin = 2
    /\ Len(results) = 2
    /\ Len(report) = 1

\* C20 (as claimed): no step of the rename loop changes the number of
\* entries of a directory. Violated: two tuples of the same identifier share
\* directory and new_filename, and the second fs::rename (line 156) replaces
\* the file the first one produced.
C20_RenameKeepsFiles ==
    [][phase = "finalize" =>
         \A d \in AllDirs : Cardinality(fs'[d]) = Cardinality(fs[d])]_vars

====
